---- MODULE Spec2Model ----
(***************************************************************************)
(* A model of the deepviewrt-rs wrapper layer: Engine, Context, Model and  *)
(* Tensor wrappers over the native DeepViewRT handles, with the native     *)
(* runtime's observable state (loaded model, live byte buffers, map        *)
(* counts, release calls) next to the wrappers' own fields.                *)
(*                                                                         *)
(* The caller holds one wrapper at a time: an Engine, which Context::new    *)
(* takes over, or a Context, or a Tensor made by Tensor::new. The wrappers *)
(* share no state, so their operations are not interleaved.                *)
(*                                                                         *)
(* Spec follows the lifecycle of the wrappers, SpecTensor the data         *)
(* operations of a Tensor, SpecCache the growth of the tensor cache of a   *)
(* Context and SpecAccessors the metadata reads of Engine and Model.       *)
(*                                                                         *)
(* Option<T> is a sequence: <<>> is None and <<x>> is Some(x).             *)
(* Native handles are tuples <<kind, n, ...>>; NULL is the null pointer.   *)
(***************************************************************************)
EXTENDS Integers, Sequences, FiniteSets, TLC

\* ------------------------------------------------------------------ bounds
MaxEngines == 1
MaxContexts == 1
MaxTensors == 1
MaxLoads == 2
MaxCache == 2
MaxMaps == 2
MaxScalesLen == 2
MaxAxis == 3
MaxPushes == 5

\* --------------------------------------------------------------- constants
NN_SUCCESS == 0
NN_ERROR_MODEL_INVALID == 20

VARIABLES
    userEngine,   \* the caller's Engine value: Option<Engine>
    ctx,          \* the caller's Context value: Option<Context>
    nextEngine,   \* engine handles handed out by nn_engine_init so far
    nextContext,  \* context handles in existence so far
    nextBuf,      \* model byte buffers passed to load_model so far
    natModel,     \* native: context handle number -> buffer id of its parsed model, 0 if none
    liveBufs,     \* ids of the model byte buffers that are still allocated
    tsr,          \* the caller's Tensor value made by Tensor::new: Option<Tensor>
    nextTensor,   \* tensor handles handed out by nn_tensor_init so far
    natT,         \* native state of tsr's handle: type tag, data allocated, data is valid text, map count
    views,        \* the live TensorData views of tsr: their MappedData variants
    released,     \* native release calls so far: handle -> number of calls
    ffi,          \* native calls and buffer events of the most recent operation, in order
    ret           \* what the most recent operation returned

ctxVars == <<userEngine, ctx, nextEngine, nextContext, nextBuf, natModel, liveBufs>>
tsrVars == <<tsr, nextTensor, natT, views>>

vars == <<ctxVars, tsrVars, released, ffi, ret>>

None == <<>>
Some(x) == <<x>>
IsSome(o) == o # <<>>
Unwrap(o) == o[1]

NULL == <<"null">>
EngineHandle(n) == <<"engine", n>>
ContextHandle(n) == <<"context", n>>
ModelHandle(load) == <<"model", load>>
LayerHandle(load, i) == <<"layer", load, i>>
TensorHandle(n) == <<"tensor", n>>

\* The engine a context handed to from_ptr is bound to; owned by foreign code.
ExternalEngine == EngineHandle(0)

Ok(op, val) == [op |-> op, ok |-> TRUE, val |-> val]
Err(op, e) == [op |-> op, ok |-> FALSE, val |-> e]

WrapperError(msg) == <<"WrapperError", msg>>

\* error.rs: the three outcomes of nn_strerror for a code
StrErrors == {"text", "null", "badutf8"}

ErrorFrom(code, s) ==
    IF s = "text" THEN <<"NNError", code>> ELSE <<"Null">>

NativeErrCodes == {NN_ERROR_MODEL_INVALID}

\* ------------------------------------------------------------------ Engine

\* A Drop that does not look at the owned flag.
DropReleases_always(owned) == TRUE

\* Drop for Engine / Context / Tensor: the native release is called iff owned.
DropReleases(owned) == owned

\* An Engine whose Drop never releases the backend.
Engine_drop_leaks(e) == <<>>

\* Drop for Engine: the handles released.
Engine_drop(e) == IF DropReleases(e.owned) THEN <<e.ptr>> ELSE <<>>

\* Drop of an Option<Engine> held in a variable or a Cell.
OptEngine_drop(o) == IF IsSome(o) THEN Engine_drop(Unwrap(o)) ELSE <<>>

\* The layers of the model the byte buffers hold, by index.
LayerNames == <<"input", "output">>
NumLayers == Len(LayerNames)

\* Every handle the native runtime can hand out within the bounds.
Handles ==
    {EngineHandle(n) : n \in 0..MaxEngines} \cup {ContextHandle(n) : n \in 1..MaxContexts}
        \cup {LayerHandle(l, i) : l \in 1..MaxLoads, i \in 0..(NumLayers - 1)}
        \cup {TensorHandle(n) : n \in 1..MaxTensors}

RECURSIVE Release(_, _)
\* The release counts after one more native release call for each handle of hs.
Release(rel, hs) ==
    IF hs = <<>> THEN rel
    ELSE Release([rel EXCEPT ![Head(hs)] = @ + 1], Tail(hs))

\* The native release function of a handle, by its kind.
ReleaseName(h) ==
    IF h[1] = "engine" THEN "nn_engine_release"
    ELSE IF h[1] = "context" THEN "nn_context_release"
    ELSE "nn_tensor_release"

ReleaseCalls(hs) == [i \in 1..Len(hs) |-> ReleaseName(hs[i])]

\* A string with an interior NUL byte.
NulString == "a\\0b"

Paths == {"backend.so", NulString}

\* CString::new succeeds iff the string has no interior NUL.
CStringNew(s) == s # NulString

Engine_new ==
    /\ userEngine = None /\ ctx = None /\ tsr = None
    /\ nextEngine < MaxEngines
    /\ \E path \in Paths, initNull \in BOOLEAN, code \in {NN_SUCCESS} \cup NativeErrCodes,
          s \in StrErrors :
         LET h == EngineHandle(nextEngine + 1)
             engine == [owned |-> TRUE, ptr |-> h]
         IN  IF initNull
             THEN /\ ret' = Err(<<"Engine::new">>, WrapperError("nn_engine_init memory allocated failed"))
                  /\ ffi' = <<"nn_engine_init">>
                  /\ UNCHANGED <<userEngine, nextEngine, released>>
             ELSE IF ~CStringNew(path)
             THEN /\ ret' = Err(<<"Engine::new">>, WrapperError("nul byte"))
                  /\ ffi' = <<"nn_engine_init">> \o ReleaseCalls(Engine_drop(engine))
                  /\ released' = Release(released, Engine_drop(engine))
                  /\ nextEngine' = nextEngine + 1
                  /\ UNCHANGED userEngine
             ELSE IF code # NN_SUCCESS
             THEN /\ ret' = Err(<<"Engine::new">>, ErrorFrom(code, s))
                  /\ ffi' = <<"nn_engine_init", "nn_engine_load", "nn_strerror">>
                            \o ReleaseCalls(Engine_drop(engine))
                  /\ released' = Release(released, Engine_drop(engine))
                  /\ nextEngine' = nextEngine + 1
                  /\ UNCHANGED userEngine
             ELSE /\ ret' = Ok(<<"Engine::new">>, h)
                  /\ ffi' = <<"nn_engine_init", "nn_engine_load">>
                  /\ userEngine' = Some(engine)
                  /\ nextEngine' = nextEngine + 1
                  /\ UNCHANGED released
    /\ UNCHANGED <<ctx, nextContext, nextBuf, natModel, liveBufs, tsrVars>>

Engine_wrap ==
    /\ userEngine = None /\ ctx = None /\ tsr = None
    /\ \E ptr \in {NULL, ExternalEngine} :
         IF ptr = NULL
         THEN /\ ret' = Err(<<"Engine::wrap">>, <<"Null">>)
              /\ UNCHANGED userEngine
         ELSE /\ ret' = Ok(<<"Engine::wrap">>, ptr)
              /\ userEngine' = Some([owned |-> FALSE, ptr |-> ptr])
    /\ ffi' = <<>>
    /\ UNCHANGED <<ctx, nextEngine, nextContext, nextBuf, natModel, liveBufs, released, tsrVars>>

\* The caller's Engine goes out of scope.
Engine_dropped ==
    /\ IsSome(userEngine)
    /\ released' = Release(released, OptEngine_drop(userEngine))
    /\ ffi' = ReleaseCalls(OptEngine_drop(userEngine))
    /\ userEngine' = None
    /\ ret' = Ok(<<"drop(Engine)">>, <<>>)
    /\ UNCHANGED <<ctx, nextEngine, nextContext, nextBuf, natModel, liveBufs, tsrVars>>

\* ------------------------------------------------------------------ Tensor

\* Tensor::from_ptr: the wrapper made for a non-null handle.
Tensor_from_ptr(ptr, owned) == [owned |-> owned, ptr |-> ptr, engine |-> None, scales |-> None]

\* Drop for Tensor, then of its fields: the handles released, in order.
Tensor_drop(t) ==
    (IF DropReleases(t.owned) THEN <<t.ptr>> ELSE <<>>) \o OptEngine_drop(t.engine)

RECURSIVE Tensors_drop(_)
\* Drop of the Vec<(i32, Tensor)>: every entry is dropped, front to back.
Tensors_drop(ts) ==
    IF ts = <<>> THEN <<>> ELSE Tensor_drop(Head(ts)[2]) \o Tensors_drop(Tail(ts))

\* ----------------------------------------------------------------- Context

CtxNum(c) == c.ptr[2]

\* Native contract: the engine a context handle is bound to.
nn_context_engine(c) == ExternalEngine

\* Native contract: the parsed model of a context, NULL when none is loaded.
nn_context_model(c) ==
    IF natModel[CtxNum(c)] # 0 THEN ModelHandle(natModel[CtxNum(c)]) ELSE NULL

\* Native contract: the tensor of layer index, NULL without a model or out of range.
nn_context_tensor_index(c, index) ==
    IF natModel[CtxNum(c)] # 0 /\ index < NumLayers
    THEN LayerHandle(natModel[CtxNum(c)], index) ELSE NULL

\* The names tensor is called with: the model's layers, a name of no layer, a name with a NUL.
Names == {LayerNames[i] : i \in 1..NumLayers} \cup {"no_such_layer", NulString}

\* Native contract: the index of the layer called name, -1 when there is none.
nn_model_layer_lookup(name) ==
    IF \E i \in 0..(NumLayers - 1) : name = LayerNames[i + 1]
    THEN CHOOSE i \in 0..(NumLayers - 1) : name = LayerNames[i + 1] ELSE -1

\* Native contract: the tensor of the layer called name, NULL when there is none.
nn_context_tensor(c, name) ==
    IF natModel[CtxNum(c)] # 0 /\ nn_model_layer_lookup(name) # -1
    THEN LayerHandle(natModel[CtxNum(c)], nn_model_layer_lookup(name)) ELSE NULL

Context_new ==
    /\ IsSome(userEngine)
    /\ ctx = None
    /\ nextContext < MaxContexts
    /\ \E initNull \in BOOLEAN :
         LET engine == Unwrap(userEngine)
             h == ContextHandle(nextContext + 1)
         IN  IF initNull
             THEN /\ ret' = Err(<<"Context::new">>, WrapperError("nn_context_init returned null"))
                  /\ released' = Release(released, Engine_drop(engine))
                  /\ ffi' = <<"nn_context_init">> \o ReleaseCalls(Engine_drop(engine))
                  /\ UNCHANGED <<ctx, nextContext>>
             ELSE /\ ret' = Ok(<<"Context::new">>, h)
                  /\ ctx' = Some([owned |-> TRUE, ptr |-> h, engine |-> Some(engine),
                                  model_data |-> None, model |-> None, tensors |-> <<>>,
                                  tensors_cap |-> 0, tensors_buf |-> 0])
                  /\ nextContext' = nextContext + 1
                  /\ ffi' = <<"nn_context_init">>
                  /\ UNCHANGED released
    /\ userEngine' = None
    /\ UNCHANGED <<nextEngine, nextBuf, natModel, liveBufs, tsrVars>>

Context_from_ptr ==
    /\ ctx = None /\ userEngine = None /\ tsr = None
    /\ nextContext < MaxContexts
    /\ \E ptr \in {NULL, ContextHandle(nextContext + 1)} :
         IF ptr = NULL
         THEN /\ ret' = Err(<<"Context::from_ptr">>, WrapperError("ptr is null"))
              /\ UNCHANGED <<ctx, nextContext>>
         ELSE /\ ret' = Ok(<<"Context::from_ptr">>, ptr)
              /\ ctx' = Some([owned |-> FALSE, ptr |-> ptr, engine |-> None,
                              model_data |-> None, model |-> None, tensors |-> <<>>,
                                  tensors_cap |-> 0, tensors_buf |-> 0])
              /\ nextContext' = nextContext + 1
    /\ ffi' = <<>>
    /\ UNCHANGED <<userEngine, nextEngine, nextBuf, natModel, liveBufs, released, tsrVars>>

\* An engine() that never finds the cached Engine.
engine_cached_never(c) == FALSE

\* Context::engine: the Cell already holds an Engine.
engine_cached(c) == IsSome(c.engine)

Context_engine ==
    /\ IsSome(ctx)
    /\ LET c == Unwrap(ctx) IN
       IF engine_cached(c)
       THEN /\ ret' = Ok(<<"Context::engine">>, Some(Unwrap(c.engine).ptr))
            /\ ffi' = <<>>
            /\ UNCHANGED ctx
       ELSE \E r \in {NULL, nn_context_engine(c)} :
              /\ ffi' = <<"nn_context_engine">>
              /\ IF r = NULL
                 THEN /\ ret' = Ok(<<"Context::engine">>, None)
                      /\ UNCHANGED ctx
                 ELSE /\ ret' = Ok(<<"Context::engine">>, Some(r))
                      /\ ctx' = Some([c EXCEPT !.engine = Some([owned |-> FALSE, ptr |-> r])])
    /\ UNCHANGED <<userEngine, nextEngine, nextContext, nextBuf, natModel, liveBufs, released, tsrVars>>

\* Context::model as a function of the wrapper: <<the Context afterwards, the Option returned,
\* the native calls made>>.
model(c) ==
    IF IsSome(c.model)
    THEN <<c, Some(Unwrap(c.model).ptr), <<>>>>
    ELSE IF nn_context_model(c) = NULL
    THEN <<c, None, <<"nn_context_model">>>>
    ELSE <<[c EXCEPT !.model = Some([ptr |-> nn_context_model(c)])],
           Some(nn_context_model(c)), <<"nn_context_model">>>>

Context_model ==
    /\ IsSome(ctx)
    /\ LET r == model(Unwrap(ctx)) IN
         /\ ctx' = Some(r[1])
         /\ ret' = Ok(<<"Context::model">>, r[2])
         /\ ffi' = r[3]
    /\ UNCHANGED <<userEngine, nextEngine, nextContext, nextBuf, natModel, liveBufs, released, tsrVars>>

\* The bytes held by an Option<Vec<u8>>, as a set of buffer ids.
Bufs(o) == IF IsSome(o) THEN {Unwrap(o)} ELSE {}

\* An unload_model that leaves the tensor cache as it is.
unload_fields_keeps_cache(c) == [c EXCEPT !.model_data = None, !.model = None]

\* unload_model, the wrapper's fields afterwards.
unload_fields(c) ==
    [c EXCEPT !.tensors = <<>>, !.tensors_cap = 0, !.tensors_buf = 0,
              !.model_data = None, !.model = None]

\* An unload_model that clears model_data before it calls the runtime.
unload_events_buffer_first(c) ==
    (IF IsSome(c.model_data) THEN <<"drop_buffer">> ELSE <<>>)
        \o <<"nn_context_model_unload">> \o ReleaseCalls(Tensors_drop(c.tensors))

\* unload_model, its native calls and buffer events in order.
unload_events(c) ==
    <<"nn_context_model_unload">> \o ReleaseCalls(Tensors_drop(c.tensors))
        \o (IF IsSome(c.model_data) THEN <<"drop_buffer">> ELSE <<>>)

unload_model ==
    /\ IsSome(ctx)
    /\ LET c == Unwrap(ctx) IN
         /\ natModel' = [natModel EXCEPT ![CtxNum(c)] = 0]
         /\ released' = Release(released, Tensors_drop(c.tensors))
         /\ liveBufs' = liveBufs \ (Bufs(c.model_data) \ Bufs(unload_fields(c).model_data))
         /\ ctx' = Some(unload_fields(c))
         /\ ffi' = unload_events(c)
    /\ ret' = Ok(<<"unload_model">>, <<>>)
    /\ UNCHANGED <<userEngine, nextEngine, nextContext, nextBuf, tsrVars>>

\* A load_model that lets the bytes go out of scope instead of keeping them.
store_model_data_dropped(c, buf) == c

\* load_model: the field that keeps the bytes.
store_model_data(c, buf) == [c EXCEPT !.model_data = Some(buf)]

\* A load_model that does not look at the native load's code.
load_result_ignores_code(code, s) == Ok(<<"load_model">>, <<>>)

\* load_model: the value returned for the native load's code.
load_result(code, s) ==
    IF code # NN_SUCCESS THEN Err(<<"load_model">>, ErrorFrom(code, s)) ELSE Ok(<<"load_model">>, <<>>)

load_model ==
    /\ IsSome(ctx)
    /\ nextBuf < MaxLoads
    /\ \E code \in {NN_SUCCESS} \cup NativeErrCodes, s \in StrErrors :
         LET c == Unwrap(ctx)
             data == nextBuf + 1
             u == unload_fields(c)
         IN  /\ ctx' = Some(store_model_data(u, data))
             /\ liveBufs' = (liveBufs \ (Bufs(c.model_data) \ Bufs(u.model_data)))
                                \cup Bufs(store_model_data(u, data).model_data)
             /\ natModel' = [natModel EXCEPT ![CtxNum(c)] = IF code = NN_SUCCESS THEN data ELSE 0]
             /\ released' = Release(released, Tensors_drop(c.tensors))
             /\ ffi' = unload_events(c) \o <<"store_buffer", "nn_context_model_load">>
                           \o (IF code # NN_SUCCESS THEN <<"nn_strerror">> ELSE <<>>)
             /\ ret' = [load_result(code, s) EXCEPT !.op = <<"load_model", data, code, s>>]
             /\ nextBuf' = nextBuf + 1
    /\ UNCHANGED <<userEngine, nextEngine, nextContext, tsrVars>>

\* A scan that keeps the last entry with the index instead of the first.
last_match(ts, index, k) ==
    IF \E j \in k..Len(ts) : ts[j][1] = index
    THEN CHOOSE j \in k..Len(ts) : ts[j][1] = index /\ \A m \in (j + 1)..Len(ts) : ts[m][1] # index
    ELSE 0

RECURSIVE first_match(_, _, _)
\* The scan `for (index_, tensor) in tensors_ref`: position of the first entry with the
\* index, 0 when there is none.
first_match(ts, index, k) ==
    IF k > Len(ts) THEN 0
    ELSE IF ts[k][1] = index THEN k
    ELSE first_match(ts, index, k + 1)

\* The cache after tensor / tensor_index / tensor_index_mut has handled a found tensor.
cache_insert(ts, index, tensor) == Append(ts, <<index, tensor>>)

\* Vec::push on a full Vec: the capacity the buffer grows to, at least 4 and at least twice
\* the old one.
grow_amortized(cap) == IF 2 * cap < 4 THEN 4 ELSE 2 * cap

\* Vec::push: the capacity afterwards.
push_cap(c) ==
    IF Len(c.tensors) < c.tensors_cap THEN c.tensors_cap ELSE grow_amortized(c.tensors_cap)

\* Vec::push: the heap buffers the pairs can be in afterwards. A push within the capacity
\* leaves them where they are; the first push allocates; a push on a full Vec reallocates,
\* and the allocator extends the buffer in place or moves the pairs to a new one.
push_bufs(c) ==
    IF Len(c.tensors) < c.tensors_cap THEN {c.tensors_buf}
    ELSE IF c.tensors_cap = 0 THEN {1}
    ELSE {c.tensors_buf, c.tensors_buf + 1}

\* The Context after borrowed.push((index, tensor)) has left the pairs in buffer buf.
push(c, index, tensor, buf) ==
    [c EXCEPT !.tensors = cache_insert(@, index, tensor),
              !.tensors_cap = push_cap(c),
              !.tensors_buf = buf]

\* The Result of the final scan of the cache.
lookup_result(op, ts, index) ==
    IF first_match(ts, index, 1) # 0
    THEN Ok(op, <<first_match(ts, index, 1), ts[first_match(ts, index, 1)][2].ptr>>)
    ELSE Err(op, WrapperError("Tensor not found"))

\* A test that takes every pointer the runtime returns for a tensor.
is_null_never(ptr) == FALSE

\* ret.is_null() on the pointer the runtime returned for a tensor.
is_null(ptr) == ptr = NULL

\* Body shared by tensor_index and tensor_index_mut, which differ in the borrow they return.
tensor_index_body(op) ==
    /\ \E index \in 0..NumLayers :
         LET c == Unwrap(ctx)
             r == nn_context_tensor_index(c, index)
         IN  /\ ffi' = <<"nn_context_tensor_index">>
             /\ IF is_null(r)
                THEN /\ ret' = Err(<<op, index>>, WrapperError("No tensor found"))
                     /\ UNCHANGED ctx
                ELSE \E buf \in push_bufs(c) :
                       LET n == push(c, index, Tensor_from_ptr(r, FALSE), buf) IN
                         /\ ctx' = Some(n)
                         /\ ret' = lookup_result(<<op, index>>, n.tensors, index)
    /\ UNCHANGED <<userEngine, nextEngine, nextContext, nextBuf, natModel, liveBufs, released, tsrVars>>

tensor_index ==
    /\ IsSome(ctx)
    /\ tensor_index_body("tensor_index")

tensor_index_mut ==
    /\ IsSome(ctx)
    /\ tensor_index_body("tensor_index_mut")

tensor ==
    /\ IsSome(ctx)
    /\ \E name \in Names :
         LET c == Unwrap(ctx)
             r == nn_context_tensor(c, name)
             m == model(c)
             index == nn_model_layer_lookup(name)
         IN  IF ~CStringNew(name)
             THEN /\ ret' = Err(<<"tensor", name>>, WrapperError("nul byte"))
                  /\ ffi' = <<>>
                  /\ UNCHANGED ctx
             ELSE IF is_null(r)
             THEN /\ ret' = Err(<<"tensor", name>>, WrapperError("No tensor found"))
                  /\ ffi' = <<"nn_context_tensor">>
                  /\ UNCHANGED ctx
             ELSE IF m[2] = None
             THEN /\ ret' = Err(<<"tensor", name>>, WrapperError("Could not get index"))
                  /\ ffi' = <<"nn_context_tensor">> \o m[3]
                  /\ ctx' = Some(m[1])
             ELSE IF index = -1
             THEN /\ ret' = Err(<<"tensor", name>>, <<"panic">>)
                  /\ ffi' = <<"nn_context_tensor">> \o m[3] \o <<"nn_model_layer_lookup">>
                  /\ ctx' = Some(m[1])
             ELSE /\ \E buf \in push_bufs(m[1]) :
                       LET n == push(m[1], index, Tensor_from_ptr(r, FALSE), buf) IN
                         /\ ctx' = Some(n)
                         /\ ret' = lookup_result(<<"tensor", name>>, n.tensors, index)
                  /\ ffi' = <<"nn_context_tensor">> \o m[3] \o <<"nn_model_layer_lookup">>
    /\ UNCHANGED <<userEngine, nextEngine, nextContext, nextBuf, natModel, liveBufs, released, tsrVars>>

\* A Context whose fields are dropped before its handle is released.
Context_drop_fields_first(c) ==
    OptEngine_drop(c.engine) \o Tensors_drop(c.tensors)
        \o (IF DropReleases(c.owned) THEN <<c.ptr>> ELSE <<>>)

\* Drop for Context, then of its fields in declaration order.
Context_drop(c) ==
    (IF DropReleases(c.owned) THEN <<c.ptr>> ELSE <<>>)
        \o OptEngine_drop(c.engine) \o Tensors_drop(c.tensors)

\* Native contract: releasing a context destroys it together with its parsed model.
nn_context_release(c, hs) ==
    IF \E i \in 1..Len(hs) : hs[i] = c.ptr
    THEN [natModel EXCEPT ![CtxNum(c)] = 0] ELSE natModel

\* The caller's Context goes out of scope.
Context_dropped ==
    /\ IsSome(ctx)
    /\ LET c == Unwrap(ctx) IN
         /\ released' = Release(released, Context_drop(c))
         /\ ffi' = ReleaseCalls(Context_drop(c))
                       \o (IF IsSome(c.model_data) THEN <<"drop_buffer">> ELSE <<>>)
         /\ natModel' = nn_context_release(c, Context_drop(c))
         /\ liveBufs' = liveBufs \ Bufs(c.model_data)
    /\ ctx' = None
    /\ ret' = Ok(<<"drop(Context)">>, <<>>)
    /\ UNCHANGED <<userEngine, nextEngine, nextContext, nextBuf, tsrVars>>

\* ------------------------------------------------- Tensor made by Tensor::new

\* enum TensorType and enum MappedData, by discriminant 0..12.
TypeNames == <<"RAW", "STR", "I8", "U8", "I16", "U16", "I32", "U32", "I64", "U64",
               "F16", "F32", "F64">>

TensorTypes == 0..(Len(TypeNames) - 1)

\* TryFrom<u32> for TensorType: the variant of a native tag, None for any other tag.
TensorType_try_from(value) ==
    IF value \in 0..12 THEN Some(TypeNames[value + 1]) ELSE None

\* The MappedData variant each arm of the match in mapro builds.
MappedVariant(tensor_type) ==
    CASE tensor_type = "RAW" -> "RAW"
      [] tensor_type = "STR" -> "STR"
      [] tensor_type = "I8"  -> "I8"
      [] tensor_type = "U8"  -> "U8"
      [] tensor_type = "I16" -> "I16"
      [] tensor_type = "U16" -> "U16"
      [] tensor_type = "I32" -> "I32"
      [] tensor_type = "U32" -> "U32"
      [] tensor_type = "I64" -> "I64"
      [] tensor_type = "U64" -> "U64"
      [] tensor_type = "F16" -> "RAW"
      [] tensor_type = "F32" -> "F32"
      [] tensor_type = "F64" -> "F64"

\* Native state of a tensor handle that does not exist.
NoTensor == [type |-> 0, data |-> FALSE, text |-> TRUE, maps |-> 0]

Tensor_new ==
    /\ tsr = None /\ userEngine = None /\ ctx = None
    /\ nextTensor < MaxTensors
    /\ \E initNull \in BOOLEAN :
         IF initNull
         THEN /\ ret' = Err(<<"Tensor::new">>, <<"IoError">>)
              /\ UNCHANGED <<tsr, nextTensor, natT>>
         ELSE /\ ret' = Ok(<<"Tensor::new">>, TensorHandle(nextTensor + 1))
              /\ tsr' = Some(Tensor_from_ptr(TensorHandle(nextTensor + 1), TRUE))
              /\ nextTensor' = nextTensor + 1
              /\ natT' = NoTensor
    /\ ffi' = <<"nn_tensor_init">>
    /\ UNCHANGED <<ctxVars, views, released>>

\* Tensor::alloc. Native contract: nn_tensor_alloc gives the tensor storage of the type; it
\* is refused for some requests, and always while the storage is mapped. The bytes of a STR
\* tensor are valid text or not.
alloc ==
    /\ IsSome(tsr)
    /\ \E ttype \in TensorTypes :
         \/ \E text \in BOOLEAN :
              /\ natT.maps = 0
              /\ ~text => ttype = 1
              /\ ret' = Ok(<<"alloc", ttype>>, <<>>)
              /\ ffi' = <<"nn_tensor_alloc">>
              /\ natT' = [natT EXCEPT !.type = ttype, !.data = TRUE, !.text = text]
         \/ \E code \in NativeErrCodes, s \in StrErrors :
              /\ ret' = Err(<<"alloc", ttype>>, ErrorFrom(code, s))
              /\ ffi' = <<"nn_tensor_alloc", "nn_strerror">>
              /\ UNCHANGED natT
    /\ UNCHANGED <<ctxVars, tsr, nextTensor, views, released>>

\* Tensor::tensor_type: the variant of the tag the runtime reports.
tensor_type == Unwrap(TensorType_try_from(natT.type))

\* Native contract: nn_tensor_mapro returns NULL for a tensor without data, a pointer for
\* an unmapped tensor with data, and either of them for a tensor that is mapped already.
nn_tensor_mapro_grants == {g \in BOOLEAN : (g => natT.data) /\ (natT.data /\ natT.maps = 0 => g)}

\* Tensor::mapro_: Ok iff the runtime returned a pointer.
mapro_(granted) == granted

\* The native calls of one mapro: the type and size reads, then the map request.
mapro_calls == <<"nn_tensor_type", "nn_tensor_size", "nn_tensor_mapro">>

mapro ==
    /\ IsSome(tsr)
    /\ natT.maps < MaxMaps
    /\ \E granted \in nn_tensor_mapro_grants :
         /\ ffi' = mapro_calls
         /\ IF ~mapro_(granted)
            THEN /\ ret' = Err(<<"mapro", tensor_type>>, WrapperError("nn_tensor_mapro failed"))
                 /\ UNCHANGED <<natT, views>>
            ELSE IF tensor_type = "STR" /\ ~natT.text
            THEN /\ ret' = Err(<<"mapro", tensor_type>>, <<"Utf8Error">>)
                 /\ natT' = [natT EXCEPT !.maps = @ + 1]
                 /\ UNCHANGED views
            ELSE /\ ret' = Ok(<<"mapro", tensor_type>>, MappedVariant(tensor_type))
                 /\ natT' = [natT EXCEPT !.maps = @ + 1]
                 /\ views' = Append(views, MappedVariant(tensor_type))
    /\ UNCHANGED <<ctxVars, tsr, nextTensor, released>>

\* A TensorData without a Drop: no native call.
TensorData_drop_no_unmap == <<>>

\* Drop for TensorData: the native calls it makes.
TensorData_drop == <<"nn_tensor_unmap">>

\* Native contract: each nn_tensor_unmap takes one map off the tensor.
nn_tensor_unmap(nat, calls) == [nat EXCEPT !.maps = @ - Len(calls)]

\* One of the live views goes out of scope.
TensorData_dropped ==
    /\ \E k \in 1..Len(views) :
         views' = [i \in 1..(Len(views) - 1) |-> IF i < k THEN views[i] ELSE views[i + 1]]
    /\ natT' = nn_tensor_unmap(natT, TensorData_drop)
    /\ ffi' = TensorData_drop
    /\ ret' = Ok(<<"drop(TensorData)">>, <<>>)
    /\ UNCHANGED <<ctxVars, tsr, nextTensor, released>>

\* The lengths and values of the scales slices tried.
ScaleVals == {1, 2}
ScalesInputs == UNION {[1..n -> ScaleVals] : n \in 0..MaxScalesLen}

\* What nn_tensor_axis can report, as the i16 that Tensor::axis returns.
AxisVals == -1..MaxAxis

\* scales.len() < (self.axis() as usize): a negative i16 sign-extends to a usize above
\* every slice length.
LenLtAxis(len, axis) == IF axis < 0 THEN TRUE ELSE len < axis

\* The test of set_scales that rejects the slice.
scales_rejected(len, axis) == LenLtAxis(len, axis) \/ len # 1

\* set_scales: the scales field after the call.
scales_field(old, scales, axis) == Some(scales)

set_scales ==
    /\ IsSome(tsr)
    /\ views = <<>>
    /\ \E scales \in ScalesInputs, axis \in AxisVals :
         /\ tsr' = Some([Unwrap(tsr) EXCEPT !.scales = scales_field(@, scales, axis)])
         /\ IF scales_rejected(Len(scales), axis)
            THEN /\ ret' = Err(<<"set_scales", scales, axis>>, WrapperError("scales length"))
                 /\ ffi' = <<"nn_tensor_axis">>
            ELSE /\ ret' = Ok(<<"set_scales", scales, axis>>, <<>>)
                 /\ ffi' = <<"nn_tensor_axis", "nn_tensor_set_scales">>
    /\ UNCHANGED <<ctxVars, nextTensor, natT, views, released>>

\* What nn_tensor_shape and nn_tensor_zeros return: a null pointer or a pointer to an array
\* of the tensor.
NativeArrays == {NULL, <<"array">>}

\* Tensor::shape: slice::from_raw_parts(ret, 4) with no test of ret. With a null ret the
\* call is undefined: the build returns a slice at the null address, or stops the process
\* in the precondition check of from_raw_parts.
shape_results(op, r) ==
    IF r = NULL
    THEN {Ok(op, <<"slice", r, 4>>), Err(op, <<"abort">>)}
    ELSE {Ok(op, <<"slice", r, 4>>)}

shape ==
    /\ IsSome(tsr)
    /\ \E r \in NativeArrays :
         /\ ffi' = <<"nn_tensor_shape">>
         /\ ret' \in shape_results(<<"shape", r>>, r)
    /\ UNCHANGED <<ctxVars, tsrVars, released>>

\* Tensor::zeros: WrapperError for a null pointer, else the slice.
zeros_result(op, r) ==
    IF r = NULL THEN Err(op, WrapperError("zeros returned null"))
    ELSE Ok(op, <<"slice", r, "zeros">>)

zeros ==
    /\ IsSome(tsr)
    /\ \E r \in NativeArrays :
         /\ ffi' = <<"nn_tensor_zeros">>
         /\ ret' = zeros_result(<<"zeros", r>>, r)
    /\ UNCHANGED <<ctxVars, tsrVars, released>>

Tensor_engine ==
    /\ IsSome(tsr)
    /\ \E r \in {NULL, ExternalEngine} :
         /\ ffi' = <<"nn_tensor_engine">> \o ReleaseCalls(
                IF r = NULL THEN <<>> ELSE OptEngine_drop(Unwrap(tsr).engine))
         /\ IF r = NULL
            THEN /\ ret' = Ok(<<"Tensor::engine">>, None)
                 /\ UNCHANGED <<tsr, released>>
            ELSE /\ ret' = Ok(<<"Tensor::engine">>, Some(r))
                 /\ released' = Release(released, OptEngine_drop(Unwrap(tsr).engine))
                 /\ tsr' = Some([Unwrap(tsr) EXCEPT !.engine = Some([owned |-> FALSE, ptr |-> r])])
    /\ UNCHANGED <<ctxVars, nextTensor, natT, views>>

\* The caller's Tensor goes out of scope; its views borrow it, so none is live.
Tensor_dropped ==
    /\ IsSome(tsr)
    /\ views = <<>>
    /\ released' = Release(released, Tensor_drop(Unwrap(tsr)))
    /\ ffi' = ReleaseCalls(Tensor_drop(Unwrap(tsr)))
    /\ tsr' = None
    /\ natT' = NoTensor
    /\ ret' = Ok(<<"drop(Tensor)">>, <<>>)
    /\ UNCHANGED <<ctxVars, nextTensor, views>>

\* ------------------------------------------- Engine and Model accessors

\* What a native accessor of a string returns: a null pointer, a C string that is valid
\* UTF-8, or a C string that is not.
NativeStrings == {"null", "text", "badutf8"}

\* CStr::to_str: Ok iff the bytes are valid UTF-8.
to_str(s) == s = "text"

\* Engine::name and Engine::version: None for a null pointer, else to_str().unwrap().
Engine_str_result(op, s) ==
    IF s = "null" THEN Ok(op, None)
    ELSE IF to_str(s) THEN Ok(op, Some(<<"str", s>>))
    ELSE Err(op, <<"panic">>)

Engine_name ==
    /\ IsSome(userEngine)
    /\ \E s \in NativeStrings :
         /\ ffi' = <<"nn_engine_name">>
         /\ ret' = Engine_str_result(<<"Engine::name", s>>, s)
    /\ UNCHANGED <<ctxVars, tsrVars, released>>

Engine_version ==
    /\ IsSome(userEngine)
    /\ \E s \in NativeStrings :
         /\ ffi' = <<"nn_engine_version">>
         /\ ret' = Engine_str_result(<<"Engine::version", s>>, s)
    /\ UNCHANGED <<ctxVars, tsrVars, released>>

\* The string accessors of Model: WrapperError for a null pointer and for bytes that are
\* not valid UTF-8, else the text.
Model_str_result(op, s, msg) ==
    IF s = "null" THEN Err(op, WrapperError(msg))
    ELSE IF to_str(s) THEN Ok(op, <<"str", s>>)
    ELSE Err(op, WrapperError("Utf8Error"))

\* The caller holds the &Model that Context::model returned.
HasModel == IsSome(ctx) /\ IsSome(Unwrap(ctx).model)

Model_name ==
    /\ HasModel
    /\ \E s \in NativeStrings :
         /\ ffi' = <<"nn_model_name">>
         /\ ret' = Model_str_result(<<"Model::name", s>>, s, "nn_model_name is null")
    /\ UNCHANGED <<ctxVars, tsrVars, released>>

\* A Model accessor of a string by index: the runtime returns null for an index out of range.
Model_str_by_index(name, call, msg) ==
    /\ HasModel
    /\ \E index \in 0..NumLayers, s \in NativeStrings :
         /\ index >= NumLayers => s = "null"
         /\ ffi' = <<call>>
         /\ ret' = Model_str_result(<<name, s, index>>, s, msg)
    /\ UNCHANGED <<ctxVars, tsrVars, released>>

label == Model_str_by_index("Model::label", "nn_model_label", "label was NULL")

layer_name ==
    Model_str_by_index("Model::layer_name", "nn_model_layer_name",
                       "nn_model_layer_name returned null")

layer_type ==
    Model_str_by_index("Model::layer_type", "nn_model_layer_type", "index out of range")

layer_datatype ==
    Model_str_by_index("Model::layer_datatype", "nn_model_layer_datatype", "index out of range")

\* The type tags nn_model_layer_datatype_id reports for a layer: the 13 tags of the
\* runtime and one above them.
DatatypeTags == 0..(Len(TypeNames))

\* Model::layer_datatype_id: the Result for the value the runtime returned; `ret as u32`
\* keeps a value that is not negative.
layer_datatype_id_result(op, r) ==
    IF r = 0
    THEN Err(op, WrapperError("Model is invalid or Index is out of range"))
    ELSE IF IsSome(TensorType_try_from(r))
    THEN Ok(op, TensorType_try_from(r))
    ELSE Err(op, WrapperError("Not a valid TensorType"))

layer_datatype_id ==
    /\ HasModel
    /\ \E index \in 0..NumLayers, tag \in DatatypeTags :
         /\ index >= NumLayers => tag = 0
         /\ ffi' = <<"nn_model_layer_datatype_id">>
         /\ ret' = layer_datatype_id_result(<<"layer_datatype_id", index, tag>>, tag)
    /\ UNCHANGED <<ctxVars, tsrVars, released>>

\* The dimension counts the runtime writes through the pointer layer_shape passes.
DimCounts == 1..4

\* Model::layer_shape: n_dims after the native call. The pointer passed is
\* &mut (n_dims as usize), the address of a temporary copy, so the count the runtime
\* writes never reaches n_dims, which keeps its initial -1.
layer_shape_n_dims(written) == -1

\* Model::layer_shape: the Result for the pointer returned and the value of n_dims.
layer_shape_result(op, r, n_dims) ==
    IF r = NULL \/ n_dims = -1
    THEN Err(op, WrapperError("Index out of range"))
    ELSE Ok(op, <<"slice", r, n_dims>>)

layer_shape ==
    /\ HasModel
    /\ \E index \in 0..NumLayers, r \in NativeArrays, written \in DimCounts :
         /\ index >= NumLayers <=> r = NULL
         /\ ffi' = <<"nn_model_layer_shape">>
         /\ ret' = layer_shape_result(<<"layer_shape", index, r, written>>, r,
                                      layer_shape_n_dims(written))
    /\ UNCHANGED <<ctxVars, tsrVars, released>>

\* The caller makes a lookup only while the cache holds fewer than max pairs.
CacheBelow(max) == IsSome(ctx) /\ Len(Unwrap(ctx).tensors) < max

Init ==
    /\ userEngine = None
    /\ ctx = None
    /\ nextEngine = 0
    /\ nextContext = 0
    /\ nextBuf = 0
    /\ natModel = [c \in 1..MaxContexts |-> 0]
    /\ liveBufs = {}
    /\ tsr = None
    /\ nextTensor = 0
    /\ natT = NoTensor
    /\ views = <<>>
    /\ released = [h \in Handles |-> 0]
    /\ ffi = <<>>
    /\ ret = Ok(<<"init">>, <<>>)

Next ==
    \/ Engine_new
    \/ Engine_wrap
    \/ Engine_dropped
    \/ Context_new
    \/ Context_from_ptr
    \/ Context_engine
    \/ Context_model
    \/ load_model
    \/ unload_model
    \/ (CacheBelow(MaxCache) /\ tensor)
    \/ (CacheBelow(MaxCache) /\ tensor_index)
    \/ (CacheBelow(MaxCache) /\ tensor_index_mut)
    \/ Context_dropped
    \/ Tensor_new
    \/ Tensor_engine
    \/ Tensor_dropped

Spec == Init /\ [][Next]_vars

NextTensor ==
    \/ Tensor_new
    \/ alloc
    \/ mapro
    \/ TensorData_dropped
    \/ set_scales
    \/ shape
    \/ zeros
    \/ Tensor_engine
    \/ Tensor_dropped

SpecTensor == Init /\ [][NextTensor]_vars

\* A caller that takes a Context from foreign code and looks tensors up until the Vec of the
\* cache has grown past its first capacity.
NextCache ==
    \/ Context_from_ptr
    \/ load_model
    \/ unload_model
    \/ (CacheBelow(MaxPushes) /\ tensor)
    \/ (CacheBelow(MaxPushes) /\ tensor_index)
    \/ (CacheBelow(MaxPushes) /\ tensor_index_mut)
    \/ Context_dropped

SpecCache == Init /\ [][NextCache]_vars

\* A caller that reads the metadata of an Engine and of the Model of a Context.
NextAccessors ==
    \/ Engine_wrap
    \/ Engine_name
    \/ Engine_version
    \/ Engine_dropped
    \/ Context_from_ptr
    \/ load_model
    \/ Context_model
    \/ Model_name
    \/ label
    \/ layer_name
    \/ layer_type
    \/ layer_datatype
    \/ layer_datatype_id
    \/ layer_shape
    \/ Context_dropped

SpecAccessors == Init /\ [][NextAccessors]_vars

\* ------------------------------------------------------------------ claims

Range(q) == {q[i] : i \in DOMAIN q}

\* The operation the most recent step performed.
LastOp == ret.op[1]

\* C1: the tensor cache holds at most one entry per layer index.
C1_CacheOneEntryPerIndex ==
    IsSome(ctx) =>
        \A i, j \in DOMAIN Unwrap(ctx).tensors :
            Unwrap(ctx).tensors[i][1] = Unwrap(ctx).tensors[j][1] => i = j

\* C2: whenever the runtime holds a parsed model for a context handle, the byte buffer it
\* was parsed from is still allocated.
C2_BufferOutlivesNativeModel ==
    \A n \in 1..MaxContexts : natModel[n] # 0 => natModel[n] \in liveBufs

\* C3: a successful mapro of a tensor the runtime reports as type T returns the MappedData
\* variant T.
C3_MaproVariantIsReportedType ==
    (LastOp = "mapro" /\ ret.ok) => ret.val = ret.op[2]

C5_AtMostOneLiveView == Len(views) <= 1

\* C6: dropping a wrapper releases its handle once if it is owned and never if it is
\* borrowed; the wrappers of a cleared tensor cache and the Engines cached by engine()
\* release nothing; no handle is released more than once.
C6_ReleaseIffOwnedAtMostOnce ==
    [][ /\ \A h \in Handles : released'[h] <= 1
        /\ released'[ExternalEngine] = 0
        /\ \A l \in 1..MaxLoads, i \in 0..(NumLayers - 1) : released'[LayerHandle(l, i)] = 0
        /\ ret'.op[1] = "drop(Engine)" =>
              released'[Unwrap(userEngine).ptr] = IF Unwrap(userEngine).owned THEN 1 ELSE 0
        /\ ret'.op[1] = "drop(Tensor)" =>
              released'[Unwrap(tsr).ptr] = IF Unwrap(tsr).owned THEN 1 ELSE 0
        /\ ret'.op[1] = "drop(Context)" =>
              /\ released'[Unwrap(ctx).ptr] = IF Unwrap(ctx).owned THEN 1 ELSE 0
              /\ \A e \in Range(Unwrap(ctx).engine) :
                    released'[e.ptr] = IF e.owned THEN 1 ELSE 0
        /\ ret'.op[1] \notin {"drop(Engine)", "drop(Tensor)", "drop(Context)", "Engine::new",
                              "Context::new"} => released' = released
      ]_vars

\* C6 witness: an owned Context was dropped, and its handle and its Engine's are released.
C6_Witness ==
    /\ LastOp = "drop(Context)"
    /\ released[ContextHandle(1)] = 1
    /\ released[EngineHandle(1)] = 1

\* C7: set_scales returns Ok exactly when the slice has length 1 or length axis().
C7_SetScalesOkIffLengthOneOrAxis ==
    LastOp = "set_scales" =>
        (ret.ok <=> (Len(ret.op[2]) = 1 \/ Len(ret.op[2]) = ret.op[3]))

\* C8: after unload_model, model() returns None and the cache is empty; every wrapper the
\* cache holds, and every wrapper tensor_index returns, was made for the model of the
\* current load.
C8_UnloadForgetsModelAndWrappers ==
    IsSome(ctx) =>
        LET c == Unwrap(ctx) IN
        /\ LastOp = "unload_model" => (model(c)[2] = None /\ c.tensors = <<>>)
        /\ \A k \in DOMAIN c.tensors :
              IsSome(c.model_data) /\ c.tensors[k][2].ptr[2] = Unwrap(c.model_data)
        /\ (LastOp \in {"tensor_index", "tensor_index_mut", "tensor"} /\ ret.ok) =>
              (IsSome(c.model_data) /\ ret.val[2][2] = Unwrap(c.model_data))

\* C8 witness: tensor_index returned a wrapper after a model was loaded a second time.
C8_Witness ==
    /\ LastOp = "tensor_index" /\ ret.ok
    /\ ret.val[2] = LayerHandle(2, 0)

\* C9: a successful load_model leaves the Context holding exactly the bytes passed, with
\* no cached Model and no cached wrapper, and model() resolving the new model; the bytes
\* stay until the next load_model, unload_model or drop.
C9_LoadKeepsBytesAndResolvesModel ==
    [][ /\ (ret'.op[1] = "load_model" /\ ret'.ok) =>
              LET c == Unwrap(ctx') IN
              /\ c.model_data = Some(ret'.op[2])
              /\ ret'.op[2] \in liveBufs'
              /\ c.model = None
              /\ c.tensors = <<>>
              /\ (model(Unwrap(ctx))[2])' = Some(ModelHandle(ret'.op[2]))
        /\ (IsSome(ctx) /\ ret'.op[1] \notin {"load_model", "unload_model", "drop(Context)"}) =>
              /\ IsSome(ctx')
              /\ Unwrap(ctx').model_data = Unwrap(ctx).model_data
              /\ Bufs(Unwrap(ctx).model_data) \subseteq liveBufs'
              /\ \A m \in Range(Unwrap(ctx').model) :
                    Unwrap(ctx').model_data = Some(m.ptr[2])
      ]_vars

\* C9 witness: a second load_model succeeded.
C9_Witness == LastOp = "load_model" /\ ret.ok /\ ret.op[2] = 2

\* C10: when the native load reports a non-success code, load_model returns the error made
\* from that code, and afterwards model() returns None and the cache is empty.
C10_FailedLoadBindsNoModel ==
    (LastOp = "load_model" /\ ret.op[3] # NN_SUCCESS) =>
        /\ ~ret.ok
        /\ ret.val = IF ret.op[4] = "text" THEN <<"NNError", ret.op[3]>> ELSE <<"Null">>
        /\ model(Unwrap(ctx))[2] = None
        /\ Unwrap(ctx).tensors = <<>>

\* C10 witness: the native load failed on the second buffer handed to a Context.
C10_Witness == LastOp = "load_model" /\ ~ret.ok /\ ret.op[2] = 2

\* C11: a successful tensor_index(i) leaves every entry the cache held in place and
\* returns the first entry the cache holds for i, so two successive successful
\* tensor_index(i) calls return the same entry, wrapping the same native tensor handle.
C11_SameEntryTwice ==
    [][ (ret'.op[1] = "tensor_index" /\ ret'.ok) =>
            LET old == Unwrap(ctx).tensors
                new == Unwrap(ctx').tensors
                i == ret'.op[2]
            IN  /\ \A k \in DOMAIN old : new[k] = old[k]
                /\ \A k \in DOMAIN old :
                      (old[k][1] = i /\ \A j \in 1..(k - 1) : old[j][1] # i) =>
                          ret'.val = <<k, old[k][2].ptr>>
                /\ (LastOp = "tensor_index" /\ ret.ok /\ ret.op[2] = i) =>
                      /\ ret'.val = ret.val
                      /\ new[ret'.val[1]] = old[ret.val[1]]
      ]_vars

\* C11 witness: tensor_index(i) succeeded on a Context whose cache already held an entry
\* for i.
C11_Witness ==
    /\ LastOp = "tensor_index" /\ ret.ok
    /\ Len(Unwrap(ctx).tensors) = 2
    /\ Unwrap(ctx).tensors[1][1] = ret.op[2]
    /\ Unwrap(ctx).tensors[2][1] = ret.op[2]
    /\ ret.val[1] = 1

\* C12: a reference that tensor or tensor_index has just returned stays valid over the next
\* tensor or tensor_index call: the pairs of the cache stay at their positions and in the
\* same heap buffer.
C12_ReferencesStayValid ==
    [][ ( /\ LastOp \in {"tensor", "tensor_index"} /\ ret.ok
          /\ ret'.op[1] \in {"tensor", "tensor_index"} ) =>
            /\ IsSome(ctx')
            /\ \A k \in DOMAIN Unwrap(ctx).tensors :
                  Unwrap(ctx').tensors[k] = Unwrap(ctx).tensors[k]
            /\ Unwrap(ctx').tensors_buf = Unwrap(ctx).tensors_buf
      ]_vars

\* C13: when Engine::new fails after nn_engine_init handed out a handle (NUL byte in the
\* path, or the native load failed), that handle is released exactly once before the error
\* is returned; when it fails without a handle nothing is released; when it succeeds the
\* handle is not released and the Engine returned is owned.
C13_EngineNewReleasesOnFailure ==
    [][ ret'.op[1] = "Engine::new" =>
            LET h == EngineHandle(nextEngine + 1) IN
            IF ret'.ok
            THEN /\ userEngine' = Some([owned |-> TRUE, ptr |-> h])
                 /\ ret'.val = h
                 /\ released' = released /\ released'[h] = 0
                 /\ "nn_engine_release" \notin Range(ffi')
            ELSE IF nextEngine' = nextEngine
            THEN /\ released' = released
                 /\ "nn_engine_release" \notin Range(ffi')
                 /\ userEngine' = None
            ELSE /\ released[h] = 0
                 /\ released' = [released EXCEPT ![h] = 1]
                 /\ ffi'[Len(ffi')] = "nn_engine_release"
                 /\ Cardinality({k \in DOMAIN ffi' : ffi'[k] = "nn_engine_release"}) = 1
                 /\ userEngine' = None
      ]_vars

\* C13 witness: the native load failed and the handle of the new backend was released.
C13_Witness ==
    /\ LastOp = "Engine::new" /\ ~ret.ok
    /\ "nn_engine_load" \in Range(ffi)
    /\ released[EngineHandle(1)] = 1

\* C14 as stated: over a Context's lifetime the native engine accessor is called at most
\* once, so an engine() call that follows one that queried the runtime does not query it.
C14_AccessorCalledAtMostOnce ==
    [][ ( /\ LastOp = "Context::engine" /\ "nn_context_engine" \in Range(ffi)
          /\ ret'.op[1] = "Context::engine" ) =>
            "nn_context_engine" \notin Range(ffi')
      ]_vars

\* C14 amended: once an Engine is cached (by Context::new, or by an engine() call for which
\* the runtime returned an engine), no later step replaces it, no later step calls the
\* native accessor, and engine() returns the cached Engine; an engine() call that gets an
\* engine from the runtime caches it as borrowed, and one that gets null caches nothing.
C14_CachedEngineIsKept ==
    [][ /\ (IsSome(ctx) /\ IsSome(Unwrap(ctx).engine)) =>
              /\ IsSome(ctx') => Unwrap(ctx').engine = Unwrap(ctx).engine
              /\ "nn_context_engine" \notin Range(ffi')
              /\ ret'.op[1] = "Context::engine" =>
                    /\ ret'.val = Some(Unwrap(Unwrap(ctx).engine).ptr)
                    /\ ffi' = <<>>
        /\ (ret'.op[1] = "Context::new" /\ ret'.ok) =>
              Unwrap(ctx').engine = userEngine
        /\ (ret'.op[1] = "Context::engine" /\ "nn_context_engine" \in Range(ffi')) =>
              /\ Unwrap(ctx).engine = None
              /\ Unwrap(ctx').engine =
                    IF ret'.val = None THEN None
                    ELSE Some([owned |-> FALSE, ptr |-> Unwrap(ret'.val)])
      ]_vars

\* C14 witness: engine() was called on a Context made by from_ptr whose Engine was cached by
\* an earlier engine() call, and made no native call.
C14_Witness ==
    /\ LastOp = "Context::engine" /\ ffi = <<>>
    /\ IsSome(ctx) /\ ~Unwrap(ctx).owned
    /\ ret.val = Some(ExternalEngine)

C16_NullTensorIsErrorCacheUnchanged ==
    [][ ( /\ ret'.op[1] \in {"tensor_index", "tensor_index_mut"}
          /\ nn_context_tensor_index(Unwrap(ctx), ret'.op[2]) = NULL ) =>
            /\ ~ret'.ok
            /\ ret'.val = WrapperError("No tensor found")
            /\ ctx' = ctx
      ]_vars

\* C16 witness: tensor_index_mut was called with an index out of range on a Context with a
\* loaded model and a cached wrapper.
C16_Witness ==
    /\ LastOp = "tensor_index_mut" /\ ret.op[2] = NumLayers /\ ~ret.ok
    /\ nn_context_model(Unwrap(ctx)) # NULL
    /\ Unwrap(ctx).tensors # <<>>

\* The accessors that return a string of the runtime.
StringAccessors ==
    {"Engine::name", "Engine::version", "Model::name", "Model::label", "Model::layer_name",
     "Model::layer_type", "Model::layer_datatype"}

\* C17: when the runtime returns a non-null string that is not valid text, every string
\* accessor returns an error value and does not panic.
C17_InvalidEncodingIsErrorNotPanic ==
    (LastOp \in StringAccessors /\ ret.op[2] = "badutf8") =>
        (~ret.ok /\ ret.val[1] = "WrapperError")

\* C20: for a layer in range, layer_datatype_id returns the TensorType variant of the tag
\* the runtime reports when the tag is one of 0..12, and WrapperError for any other tag.
C20_DatatypeIdMapsAllTags ==
    (LastOp = "layer_datatype_id" /\ ret.op[2] < NumLayers) =>
        IF ret.op[3] \in 0..12
        THEN ret.ok /\ ret.val = Some(TypeNames[ret.op[3] + 1])
        ELSE ~ret.ok /\ ret.val[1] = "WrapperError"

\* C19: when the native accessor returns null, shape() and zeros() each report a
\* WrapperError and do not read through the null pointer.
C19_NullArrayIsWrapperError ==
    (LastOp \in {"shape", "zeros"} /\ ret.op[2] = NULL) =>
        (~ret.ok /\ ret.val[1] = "WrapperError")

\* C21: layer_shape returns Ok with the shape, of the dimension count the runtime reported,
\* whenever the native accessor returns a non-null pointer, and WrapperError when it
\* returns null.
C21_LayerShapeOkForNonNull ==
    LastOp = "layer_shape" =>
        IF ret.op[3] # NULL
        THEN ret.ok /\ ret.val = <<"slice", ret.op[3], ret.op[4]>>
        ELSE ~ret.ok /\ ret.val[1] = "WrapperError"

\* C22: unload_model on a Context for which the runtime holds no model leaves the wrapper
\* and the byte buffers as they were and makes the native unload call and nothing else;
\* so a second unload_model in a row changes nothing.
C22_UnloadWithoutModelIsNoOp ==
    [][ ( /\ ret'.op[1] = "unload_model"
          /\ nn_context_model(Unwrap(ctx)) = NULL ) =>
            /\ ctx' = ctx
            /\ liveBufs' = liveBufs
            /\ released' = released
            /\ ffi' = <<"nn_context_model_unload">>
      ]_vars

\* The positions of an event in the trace of the most recent operation.
Pos(e) == {i \in DOMAIN ffi : ffi[i] = e}

\* C24: unload_model and load_model call the native unload once, before the retained
\* buffer is dropped; load_model stores the new bytes after that drop and before its one
\* native load call.
C24_UnloadBeforeDropStoreBeforeLoad ==
    LastOp \in {"unload_model", "load_model"} =>
        /\ Cardinality(Pos("nn_context_model_unload")) = 1
        /\ Cardinality(Pos("drop_buffer")) <= 1
        /\ \A u \in Pos("nn_context_model_unload"), d \in Pos("drop_buffer") : u < d
        /\ LastOp = "unload_model" =>
              Pos("store_buffer") = {} /\ Pos("nn_context_model_load") = {}
        /\ LastOp = "load_model" =>
              /\ Cardinality(Pos("store_buffer")) = 1
              /\ Cardinality(Pos("nn_context_model_load")) = 1
              /\ \A d \in Pos("drop_buffer"), b \in Pos("store_buffer") : d < b
              /\ \A u \in Pos("nn_context_model_unload"), b \in Pos("store_buffer") : u < b
              /\ \A b \in Pos("store_buffer"), l \in Pos("nn_context_model_load") : b < l

\* C24 witness: load_model replaced a model that was loaded, dropping its bytes.
C24_Witness ==
    /\ LastOp = "load_model" /\ ret.ok /\ ret.op[2] = 2
    /\ Pos("drop_buffer") # {}
    /\ liveBufs = {2}

\* C25: a mapro that returns an error leaves the tensor with the maps it had: the map was
\* not granted, or it was released again before the error was returned.
C25_FailedMaproLeavesNoMap ==
    [][ (ret'.op[1] = "mapro" /\ ~ret'.ok) =>
            /\ natT'.maps = natT.maps
            /\ views' = views
      ]_vars

\* C26: after load_model has returned an error the Context holds no byte buffer, and the
\* bytes passed to it are freed: its fields are those unload_model leaves.
C26_FailedLoadKeepsNoBytes ==
    (LastOp = "load_model" /\ ~ret.ok) =>
        /\ Unwrap(ctx).model_data = None
        /\ ret.op[2] \notin liveBufs
        /\ Unwrap(ctx) = unload_fields(Unwrap(ctx))

\* C27: a set_scales that returns WrapperError does not call nn_tensor_set_scales and
\* leaves the Tensor, its cached scales included, as it was.
C27_RejectedScalesChangeNothing ==
    [][ (ret'.op[1] = "set_scales" /\ ~ret'.ok) =>
            /\ "nn_tensor_set_scales" \notin Range(ffi')
            /\ Unwrap(tsr').scales = Unwrap(tsr).scales
            /\ tsr' = tsr
      ]_vars

\* C28 as stated: dropping an owned Context made by Context::new releases the context
\* handle and then the Engine moved into it, each exactly once; a Context::new that fails
\* releases the Engine passed to it exactly once.
C28_ContextThenEngineReleased ==
    [][ /\ (ret'.op[1] = "drop(Context)" /\ Unwrap(ctx).owned) =>
              LET c == Unwrap(ctx)
                  e == Unwrap(c.engine)
              IN  /\ released'[c.ptr] = 1 /\ released[c.ptr] = 0
                  /\ released'[e.ptr] = 1 /\ released[e.ptr] = 0
                  /\ Cardinality({i \in DOMAIN ffi' : ffi'[i] = "nn_context_release"}) = 1
                  /\ Cardinality({i \in DOMAIN ffi' : ffi'[i] = "nn_engine_release"}) = 1
                  /\ \A i, j \in DOMAIN ffi' :
                        (ffi'[i] = "nn_context_release" /\ ffi'[j] = "nn_engine_release") => i < j
        /\ (ret'.op[1] = "Context::new" /\ ~ret'.ok) =>
              LET e == Unwrap(userEngine) IN
              /\ released'[e.ptr] = 1 /\ released[e.ptr] = 0
              /\ Cardinality({i \in DOMAIN ffi' : ffi'[i] = "nn_engine_release"}) = 1
      ]_vars

\* C28 amended: the same, for an Engine that is owned; an Engine made by Engine::wrap that
\* was moved into the Context, or passed to a Context::new that fails, is not released.
C28_ContextThenOwnedEngineReleased ==
    [][ /\ (ret'.op[1] = "drop(Context)" /\ Unwrap(ctx).owned) =>
              LET c == Unwrap(ctx)
                  e == Unwrap(c.engine)
                  n == IF e.owned THEN 1 ELSE 0
              IN  /\ released'[c.ptr] = 1 /\ released[c.ptr] = 0
                  /\ released'[e.ptr] = n /\ released[e.ptr] = 0
                  /\ Cardinality({i \in DOMAIN ffi' : ffi'[i] = "nn_context_release"}) = 1
                  /\ Cardinality({i \in DOMAIN ffi' : ffi'[i] = "nn_engine_release"}) = n
                  /\ \A i, j \in DOMAIN ffi' :
                        (ffi'[i] = "nn_context_release" /\ ffi'[j] = "nn_engine_release") => i < j
        /\ (ret'.op[1] = "Context::new" /\ ~ret'.ok) =>
              LET e == Unwrap(userEngine)
                  n == IF e.owned THEN 1 ELSE 0
              IN  /\ released'[e.ptr] = n /\ released[e.ptr] = 0
                  /\ Cardinality({i \in DOMAIN ffi' : ffi'[i] = "nn_engine_release"}) = n
                  /\ userEngine' = None /\ ctx' = None
      ]_vars

\* C28 witness: an owned Context holding an owned Engine was dropped; the context handle
\* was released first and the engine handle second.
C28_Witness ==
    /\ LastOp = "drop(Context)"
    /\ Len(ffi) >= 2
    /\ ffi[1] = "nn_context_release" /\ ffi[2] = "nn_engine_release"
    /\ released[ContextHandle(1)] = 1 /\ released[EngineHandle(1)] = 1

====
